---- MODULE Spec2Model ----
(***************************************************************************)
(* The agent-to-agent (A2A) router of day-4/main.py: the mention parser,   *)
(* the message forwarder, the directory (KNOWN_AGENTS) with its registry   *)
(* refresh and registration call, the /a2a and /query handlers and the     *)
(* agent selector.                                                         *)
(*                                                                         *)
(* Text is a sequence of one-character strings.  Values that are not text  *)
(* (None, a JSON number) are one-element tuples holding a longer atom, so  *)
(* they differ from every text.  A URL is a sequence of path tokens.       *)
(* Handlers are coroutines on one event loop: an action is the code a      *)
(* handler runs between two awaits.                                        *)
(***************************************************************************)
EXTENDS Integers, Sequences, FiniteSets, TLC

\* ------------------------------------------------------------------ bounds
MaxLen == 5          \* longest enumerated message text (SpecParse)
MaxReqs == 2         \* requests the server receives in one behaviour
MaxCatalog == 2      \* longest enumerated catalog (SpecSelect)
MaxResp == 3         \* longest enumerated language-model output, in tokens (SpecSelect)
MaxPayload == 2      \* most elements in an enumerated registry payload (SpecRefresh)

\* -------------------------------------------------------------- characters
\* The enumerated alphabet: '@', an ASCII letter, the hyphen, a blank and a
\* non-ASCII letter.
Chars == {"@", "a", "-", " ", "é"}
\* Characters of the named example messages.
ExampleChars == {"b", "c", "e", "f", "g", "h", "i", "l", "m", "n", "o", "r", "s", "t"}
AllChars == Chars \cup ExampleChars
\* [A-Za-z0-9_]: the ASCII word characters among AllChars.
AsciiWordChars == {"a"} \cup ExampleChars
\* Python's \w on a str pattern is Unicode-aware: it also matches "é".
WordChars == AsciiWordChars \cup {"é"}
\* Python's \s.
SpaceChars == {" "}

None == <<"None">>
NumberValue == <<"123">>
IsStr(v) == \A i \in 1..Len(v) : v[i] \in AllChars
\* Python truthiness of an Optional[str].
Falsy(v) == v = None \/ v = <<>>

\* ------------------------------------------------------------ mention parser
\* The class written as [^@]: every character but '@' continues a token.
IsMentionChar_any(c) == c # "@"
IsMentionChar(c) == c \in WordChars \/ c = "-"

RECURSIVE TokenEnd(_, _)
\* End of the greedy run [\w-]+ that starts at j.
TokenEnd(text, j) ==
    IF j < Len(text) /\ IsMentionChar(text[j + 1]) THEN TokenEnd(text, j + 1) ELSE j

\* The whitespace written as \s? : at most one character is consumed.
SpaceEnd_one(text, j) ==
    IF j < Len(text) /\ text[j + 1] \in SpaceChars THEN j + 1 ELSE j

RECURSIVE SpaceEnd(_, _)
\* End of the greedy run \s* that starts after position j (j itself if empty).
SpaceEnd(text, j) ==
    IF j < Len(text) /\ text[j + 1] \in SpaceChars THEN SpaceEnd(text, j + 1) ELSE j

RECURSIVE FindAllFrom(_, _)
\* re.findall(r'@([\w-]+)', text) scanning from position i: the captured
\* groups of the non-overlapping matches, left to right.
FindAllFrom(text, i) ==
    IF i > Len(text) THEN <<>>
    ELSE IF text[i] = "@" /\ i < Len(text) /\ IsMentionChar(text[i + 1])
         THEN LET e == TokenEnd(text, i + 1)
              IN  <<SubSeq(text, i + 1, e)>> \o FindAllFrom(text, e + 1)
         ELSE FindAllFrom(text, i + 1)

extract_agent_mentions(text) == FindAllFrom(text, 1)

\* Whether pat occurs in text at position i.
MatchesAt(text, i, pat) ==
    /\ i + Len(pat) - 1 <= Len(text)
    /\ SubSeq(text, i, i + Len(pat) - 1) = pat

\* re.sub(r'@' + target + r'\s*', '', message, count=1): the target holds
\* only word characters and hyphens, so the pattern is the literal '@target'
\* followed by a greedy whitespace run; the leftmost match is removed.
SubFirstMention(target, message) ==
    LET pat == <<"@">> \o target
        hits == {i \in 1..Len(message) : MatchesAt(message, i, pat)}
    IN  IF hits = {} THEN message
        ELSE LET i == CHOOSE x \in hits : \A y \in hits : x <= y
                 e == SpaceEnd(message, i + Len(pat) - 1)
             IN  SubSeq(message, 1, i - 1) \o SubSeq(message, e + 1, Len(message))

\* The last mention taken as the target instead of the first.
parse_a2a_request_last(message) ==
    IF ~IsStr(message)
    THEN [raised |-> TRUE, target |-> None, clean |-> message]
    ELSE LET mentions == extract_agent_mentions(message)
         IN  IF mentions = <<>>
             THEN [raised |-> FALSE, target |-> None, clean |-> message]
             ELSE [raised |-> FALSE, target |-> mentions[Len(mentions)],
                   clean |-> SubFirstMention(mentions[Len(mentions)], message)]

\* parse_a2a_request: raised is TRUE when re.findall raises TypeError on a
\* message that is not a string.
parse_a2a_request(message) ==
    IF ~IsStr(message)
    THEN [raised |-> TRUE, target |-> None, clean |-> message]
    ELSE LET mentions == extract_agent_mentions(message)
         IN  IF mentions = <<>>
             THEN [raised |-> FALSE, target |-> None, clean |-> message]
             ELSE [raised |-> FALSE, target |-> mentions[1],
                   clean |-> SubFirstMention(mentions[1], message)]

\* ----------------------------------------------------------------- URLs
UrlHost == "http://x"
\* endswith on a URL of path tokens.
EndsWith(url, tok) == Len(url) > 0 /\ url[Len(url)] = tok

RECURSIVE RStripSlash(_)
\* url.rstrip("/")
RStripSlash(url) ==
    IF EndsWith(url, "/") THEN RStripSlash(SubSeq(url, 1, Len(url) - 1)) ELSE url

\* url.replace("/a2a", "/query"): every occurrence is replaced.
ReplaceA2A(url) == [i \in 1..Len(url) |-> IF url[i] = "/a2a" THEN "/query" ELSE url[i]]

\* send_message_to_agent, "Switch to /query endpoint".
QueryUrl(agent_url) ==
    IF EndsWith(agent_url, "/a2a") THEN ReplaceA2A(agent_url)
    ELSE IF ~EndsWith(agent_url, "/query") THEN RStripSlash(agent_url) \o <<"/query">>
    ELSE agent_url

\* The suffix appended without the endswith test.
A2AUrl_append(url) == RStripSlash(url) \o <<"/a2a">>
\* fetch_agents_from_registry, "Ensure URL ends with /a2a".
A2AUrl(url) ==
    IF ~EndsWith(url, "/a2a") THEN RStripSlash(url) \o <<"/a2a">> ELSE url

\* ------------------------------------------------------------- identity
MY_AGENT_USERNAME == <<"m", "i", "m", "o", "t", "h", "e", "c", "a", "l", "i", "c", "o">>
MY_AGENT_ID == MY_AGENT_USERNAME
\* f"agent-{MY_AGENT_USERNAME}"
CallerTag == <<"a", "g", "e", "n", "t", "-">> \o MY_AGENT_USERNAME

\* ----------------------------------------------------------------- state
VARIABLES
    KNOWN_AGENTS,   \* the directory: identifier -> stored endpoint URL
    reqs,           \* the inbound requests, in arrival order
    a2a_log,        \* logs/a2a_messages.log: the audit events, in order
    http_out,       \* the outbound POSTs issued, in order
    crew_runs,      \* the requests for which the local crew was run
    registry,       \* the refresh coroutine: its position and its last result
    blocking,       \* the request whose synchronous call holds the event loop, or 0
    sel,            \* one call of select_best_agent: its arguments and its result
    search          \* one /search request: its position, catalog, selection and calls

vars == <<KNOWN_AGENTS, reqs, a2a_log, http_out, crew_runs, registry, blocking, sel, search>>

Missing == <<"Missing">>
EmptyDirectory == [k \in {} |-> <<>>]
\* An assignment that removes a key the directory already holds.
DictSet_toggle(dir, k, v) ==
    IF k \in DOMAIN dir THEN [x \in DOMAIN dir \ {k} |-> dir[x]]
    ELSE [x \in DOMAIN dir \cup {k} |-> IF x = k THEN v ELSE dir[x]]
\* KNOWN_AGENTS.setdefault(agent_id, agent_url): the first write wins.
DictSet_keep(dir, k, v) ==
    [x \in DOMAIN dir \cup {k} |-> IF x \in DOMAIN dir THEN dir[x] ELSE v]
\* KNOWN_AGENTS[agent_id] = agent_url
DictSet(dir, k, v) == [x \in DOMAIN dir \cup {k} |-> IF x = k THEN v ELSE dir[x]]

LogEvent(kind, r, conv) == [kind |-> kind, req |-> r, conv |-> conv]

\* -------------------------------------------------------- message forwarder
\* The forwarder's failure strings.
NotFoundAnswer(agent_id, known) == <<"Agent not found. Known agents:", agent_id, known>>
TimeoutAnswer(agent_id) == <<"Timeout connecting to agent", agent_id>>
HTTPErrorAnswer(agent_id) == <<"Error communicating with agent", agent_id>>
UnexpectedAnswer == <<"Unexpected error">>
\* str(data)
StrOf(data) == <<"str(data)", data.ty>>

\* What the awaited POST can produce: a timeout, a transport error or non-2xx
\* status, a 2xx body that is not JSON, or a 2xx JSON body.
AnswerValues == {<<"h", "i">>, None}
PeerBodies ==
    {[ty |-> "object", answer |-> v] : v \in AnswerValues \cup {Missing}}
    \cup {[ty |-> "array", answer |-> Missing]}
PeerOutcomes ==
    {[kind |-> k, body |-> [ty |-> "null", answer |-> Missing]] :
        k \in {"timeout", "http_error", "bad_body"}}
    \cup {[kind |-> "ok", body |-> b] : b \in PeerBodies}

\* A client built without a timeout: the POST ends only when the peer answers
\* or the connection fails.
PostOutcome_no_timeout(outcome) == outcome \in PeerOutcomes /\ outcome.kind # "timeout"
\* How the POST awaited under httpx.AsyncClient(timeout=30.0) can end.
PostOutcome(outcome) == outcome \in PeerOutcomes

\* The membership test left out: an unknown target is posted to a URL built
\* without the directory.
send_message_to_agent_no_test(agent_id, dir) ==
    IF agent_id \notin DOMAIN dir
    THEN [post |-> TRUE, url |-> QueryUrl(<<UrlHost>>), answer |-> None]
    ELSE [post |-> TRUE, url |-> QueryUrl(dir[agent_id]), answer |-> None]

\* send_message_to_agent up to its await: the lookup and the URL rewrite.
send_message_to_agent(agent_id, dir) ==
    IF agent_id \notin DOMAIN dir
    THEN [post |-> FALSE, url |-> <<>>, answer |-> NotFoundAnswer(agent_id, DOMAIN dir)]
    ELSE [post |-> TRUE, url |-> QueryUrl(dir[agent_id]), answer |-> None]

\* send_message_to_agent after its await: the value it returns for an outcome.
ForwardResult(agent_id, outcome) ==
    CASE outcome.kind = "timeout" -> TimeoutAnswer(agent_id)
      [] outcome.kind = "http_error" -> HTTPErrorAnswer(agent_id)
      [] outcome.kind = "bad_body" -> UnexpectedAnswer
      [] OTHER ->
            IF outcome.body.ty # "object" THEN UnexpectedAnswer
            ELSE IF outcome.body.answer = Missing THEN StrOf(outcome.body)
            ELSE outcome.body.answer

\* ------------------------------------------------------------ /a2a handler
\* len(x) raises TypeError for None and for a number.
HasLen(x) == x # None /\ x # NumberValue

ResponseText(target, agent_response) ==
    <<"[Forwarded to @", target, "]\n\n", agent_response>>

NoEnvelope == [text |-> None, conversation_id |-> "", agent_id |-> None]

NewRequest(kind, text, conv) ==
    [kind |-> kind, text |-> text, conv |-> conv, pc |-> "done", state |-> "Received",
     status |-> 0, target |-> None, clean |-> None, answer |-> None,
     response |-> NoEnvelope]

\* The response built from a module-level "current conversation", the one of
\* the latest audit event, in place of the handler's local variable.
Respond_shared(rq, r, agent_response, log) ==
    IF HasLen(agent_response)
    THEN [req |-> [rq EXCEPT !.pc = "done", !.state = "Responded", !.status = 200,
                             !.answer = agent_response,
                             !.response = [text |-> ResponseText(rq.target, agent_response),
                                           conversation_id |-> log[Len(log)].conv,
                                           agent_id |-> MY_AGENT_ID]],
          log |-> Append(log, LogEvent("SUCCESS", r, rq.conv))]
    ELSE [req |-> [rq EXCEPT !.pc = "done", !.state = "Errored", !.status = 500,
                             !.answer = agent_response],
          log |-> Append(log, LogEvent("ERROR", r, rq.conv))]

\* The end of a2a_endpoint once the forwarder has returned: the response
\* envelope and the SUCCESS event, or the generic handler when len() raises.
Respond(rq, r, agent_response, log) ==
    IF HasLen(agent_response)
    THEN [req |-> [rq EXCEPT !.pc = "done", !.state = "Responded", !.status = 200,
                             !.answer = agent_response,
                             !.response = [text |-> ResponseText(rq.target, agent_response),
                                           conversation_id |-> rq.conv,
                                           agent_id |-> MY_AGENT_ID]],
          log |-> Append(log, LogEvent("SUCCESS", r, rq.conv))]
    ELSE [req |-> [rq EXCEPT !.pc = "done", !.state = "Errored", !.status = 500,
                             !.answer = agent_response],
          log |-> Append(log, LogEvent("ERROR", r, rq.conv))]

\* "if not target_agent": the handler's test for the rejection.
NoTarget_never(target_agent) == FALSE
NoTarget(target_agent) == Falsy(target_agent)

\* a2a_endpoint from the arrival of the request to its first await (or to
\* its end when it does not await).
a2a_endpoint(text_content, conversation_id) ==
    LET r == Len(reqs) + 1
        rq0 == NewRequest("a2a", text_content, conversation_id)
        log1 == Append(a2a_log, LogEvent("INCOMING", r, conversation_id))
        p == parse_a2a_request(text_content)
        rq1 == [rq0 EXCEPT !.target = p.target, !.clean = p.clean]
        log2 == Append(log1, LogEvent("ROUTING", r, conversation_id))
        f == send_message_to_agent(p.target, KNOWN_AGENTS)
    IN  /\ blocking = 0
        /\ Len(reqs) < MaxReqs
        /\ IF p.raised
           THEN /\ reqs' = Append(reqs, [rq0 EXCEPT !.state = "Errored", !.status = 500])
                /\ a2a_log' = Append(log1, LogEvent("ERROR", r, conversation_id))
                /\ http_out' = http_out
           ELSE IF NoTarget(p.target)
           THEN /\ reqs' = Append(reqs, [rq1 EXCEPT !.state = "Rejected", !.status = 400])
                /\ a2a_log' = Append(log1, LogEvent("NO_TARGET", r, conversation_id))
                /\ http_out' = http_out
           ELSE IF f.post
           THEN /\ reqs' = Append(reqs, [rq1 EXCEPT !.pc = "awaiting_peer",
                                                    !.state = "Forwarded"])
                /\ a2a_log' = log2
                /\ http_out' = Append(http_out, [req |-> r, url |-> f.url,
                                                 question |-> p.clean,
                                                 user_id |-> CallerTag])
           ELSE /\ reqs' = Append(reqs, Respond(rq1, r, f.answer, log2).req)
                /\ a2a_log' = Respond(rq1, r, f.answer, log2).log
                /\ http_out' = http_out
        /\ UNCHANGED <<KNOWN_AGENTS, crew_runs, registry, blocking, sel, search>>

\* A forwarder that posts once more after a timeout or a transport error.
a2a_endpoint_resume_retry(r, outcome) ==
    /\ blocking = 0
    /\ r \in 1..Len(reqs)
    /\ reqs[r].kind = "a2a"
    /\ reqs[r].pc = "awaiting_peer"
    /\ LET done == Respond(reqs[r], r, ForwardResult(reqs[r].target, outcome), a2a_log)
           calls == SelectSeq(http_out, LAMBDA c : c.req = r)
       IN  IF outcome.kind \in {"timeout", "http_error"} /\ Len(calls) < 2
           THEN /\ http_out' = Append(http_out, calls[1])
                /\ UNCHANGED <<reqs, a2a_log>>
           ELSE /\ reqs' = [reqs EXCEPT ![r] = done.req]
                /\ a2a_log' = done.log
                /\ http_out' = http_out
    /\ UNCHANGED <<KNOWN_AGENTS, crew_runs, registry, blocking, sel, search>>

\* a2a_endpoint resumed when the awaited POST of request r ends with outcome.
a2a_endpoint_resume(r, outcome) ==
    /\ blocking = 0
    /\ PostOutcome(outcome)
    /\ r \in 1..Len(reqs)
    /\ reqs[r].kind = "a2a"
    /\ reqs[r].pc = "awaiting_peer"
    /\ LET done == Respond(reqs[r], r, ForwardResult(reqs[r].target, outcome), a2a_log)
       IN  /\ reqs' = [reqs EXCEPT ![r] = done.req]
           /\ a2a_log' = done.log
    /\ UNCHANGED <<KNOWN_AGENTS, http_out, crew_runs, registry, blocking, sel, search>>

\* ---------------------------------------------------------- /query handler
\* query_agent up to crew.kickoff(), a synchronous call: the event loop is
\* held until it returns.
query_agent(question) ==
    /\ blocking = 0
    /\ Len(reqs) < MaxReqs
    /\ reqs' = Append(reqs, [NewRequest("query", question, "") EXCEPT !.pc = "in_crew"])
    /\ crew_runs' = crew_runs \cup {Len(reqs) + 1}
    /\ blocking' = Len(reqs) + 1
    /\ UNCHANGED <<KNOWN_AGENTS, a2a_log, http_out, registry, sel, search>>

\* crew.kickoff() returns (ok) or raises.
query_agent_return(ok) ==
    /\ blocking # 0
    /\ reqs[blocking].kind = "query"
    /\ reqs' = [reqs EXCEPT ![blocking] =
                    [@ EXCEPT !.pc = "done",
                              !.state = IF ok THEN "Responded" ELSE "Errored",
                              !.status = IF ok THEN 200 ELSE 500]]
    /\ blocking' = 0
    /\ UNCHANGED <<KNOWN_AGENTS, a2a_log, http_out, crew_runs, registry, sel, search>>

\* ------------------------------------------------------------ registration
register_agent(agent_id, agent_url) ==
    /\ blocking = 0
    /\ KNOWN_AGENTS' = DictSet(KNOWN_AGENTS, agent_id, agent_url)
    /\ UNCHANGED <<reqs, a2a_log, http_out, crew_runs, registry, blocking, sel, search>>

\* -------------------------------------------------------- directory refresh
\* d.get(k) and d.get(k, default) on a field that may be absent.
DictGet(v) == IF v = Missing THEN None ELSE v
DictGetOr(v, default) == IF v = Missing THEN default ELSE v
\* Python's "a or b" on values that are None, text or URLs.
PyOr(a, b) == IF Falsy(a) THEN b ELSE a
\* Whether url.endswith can be called: the value is a str.
IsUrlStr(url) == url # None /\ url # NumberValue

\* A registry element that is a JSON object, and one that is not.
AgentElem(agent_id, username, endpoint, url) ==
    [dict |-> TRUE, agent_id |-> agent_id, username |-> username,
     endpoint |-> endpoint, url |-> url]
BadElem == [dict |-> FALSE, agent_id |-> Missing, username |-> Missing,
            endpoint |-> Missing, url |-> Missing]

\* The skip test with the comparison to the own username left out.
IsSkipped_empty(username) == Falsy(username)
\* "if not username or username == MY_AGENT_USERNAME: continue"
IsSkipped(username) == Falsy(username) \/ username = MY_AGENT_USERNAME

RECURSIVE UpdateFrom(_, _, _)
\* The update loop over agents[i..]: the directory it leaves and whether it
\* ran to its end (ok) or an element raised.
UpdateFrom(dir, agents, i) ==
    IF i > Len(agents) THEN [dir |-> dir, ok |-> TRUE]
    ELSE LET agent == agents[i]
             username == PyOr(DictGet(agent.agent_id), DictGet(agent.username))
             url == PyOr(DictGet(agent.endpoint), DictGetOr(agent.url, <<>>))
         IN  IF ~agent.dict THEN [dir |-> dir, ok |-> FALSE]
             ELSE IF IsSkipped(username)
                  THEN UpdateFrom(dir, agents, i + 1)
             ELSE IF ~IsUrlStr(url) THEN [dir |-> dir, ok |-> FALSE]
             ELSE UpdateFrom(DictSet(dir, username, A2AUrl(url)), agents, i + 1)

\* A registry response body: a bare array, an object (with or without the
\* agents key) or another JSON value.
ListPayload(agents) == [shape |-> "list", has_agents |-> FALSE, agents |-> agents]
ObjectPayload(agents) == [shape |-> "object", has_agents |-> TRUE, agents |-> agents]
EmptyObjectPayload == [shape |-> "object", has_agents |-> FALSE, agents |-> <<>>]
RegistryResponse(kind, data) == [kind |-> kind, data |-> data]

\* A refresh that rebuilds the directory from the payload alone.
fetch_result_replace(dir, outcome) ==
    IF outcome.kind # "ok" \/ outcome.data.shape # "object"
    THEN [dir |-> dir, ok |-> FALSE]
    ELSE UpdateFrom(EmptyDirectory, outcome.data.agents, 1)

\* A refresh that reports success after the first element of the payload.
fetch_result_first(dir, outcome) ==
    IF outcome.kind # "ok" \/ outcome.data.shape # "object"
    THEN [dir |-> dir, ok |-> FALSE]
    ELSE UpdateFrom(dir, SubSeq(outcome.data.agents, 1, 1), 1)

\* The body of fetch_agents_from_registry after its await, for an outcome of
\* the GET: data.get("agents", []) raises AttributeError unless data is an
\* object, and every exception ends in "return False".
fetch_result(dir, outcome) ==
    IF outcome.kind # "ok" THEN [dir |-> dir, ok |-> FALSE]
    ELSE IF outcome.data.shape # "object" THEN [dir |-> dir, ok |-> FALSE]
    ELSE LET agents == IF outcome.data.has_agents THEN outcome.data.agents
                       ELSE <<>>
         IN  UpdateFrom(dir, agents, 1)

NoResponse == RegistryResponse("none", EmptyObjectPayload)

\* fetch_agents_from_registry up to "await client.get(REGISTRY_URL)".
fetch_agents_from_registry ==
    /\ blocking = 0
    /\ registry.pc = "idle"
    /\ registry' = [registry EXCEPT !.pc = "fetching"]
    /\ UNCHANGED <<KNOWN_AGENTS, reqs, a2a_log, http_out, crew_runs, blocking, sel, search>>

\* fetch_agents_from_registry resumed with the outcome of the GET.
fetch_agents_return(outcome) ==
    /\ blocking = 0
    /\ registry.pc = "fetching"
    /\ KNOWN_AGENTS' = fetch_result(KNOWN_AGENTS, outcome).dir
    /\ registry' = [pc |-> "idle",
                    result |-> IF fetch_result(KNOWN_AGENTS, outcome).ok
                               THEN "True" ELSE "False",
                    last |-> outcome]
    /\ UNCHANGED <<reqs, a2a_log, http_out, crew_runs, blocking, sel, search>>

\* ------------------------------------------------------------ agent selector
\* The language model's output is a sequence of tokens: the fence markers
\* (three backticks followed by json, and three backticks alone), prose, the text of a JSON object with its
\* selected_agent_id (None for null), the text of a JSON array, and the two
\* parts of a JSON object whose reasoning string holds the tokens between
\* them.  Whitespace belongs to the tokens: strip() and json.loads ignore it.
FenceJson == <<"fence-json">>
Fence == <<"fence">>
Prose == <<"prose">>
JsonObject(selected) == <<"object", selected>>
JsonArray == <<"array">>
ObjectOpen(selected) == <<"object-open", selected>>
ObjectClose == <<"object-close">>

\* text.split(delimiter)[1].split(fence)[0], the delimiter being a fence
\* marker of delims that occurs in text: the tokens after its first
\* occurrence, up to the next fence marker of either kind.
AfterFirst(text, delims) ==
    LET i == CHOOSE x \in 1..Len(text) :
                 text[x] \in delims /\ \A y \in 1..(x - 1) : text[y] \notin delims
        stops == {x \in (i + 1)..Len(text) : text[x] \in {FenceJson, Fence}}
        e == IF stops = {} THEN Len(text) + 1
             ELSE CHOOSE x \in stops : \A y \in stops : x <= y
    IN  SubSeq(text, i + 1, e - 1)

\* "Remove markdown code blocks if present".
Unwrap(response_text) ==
    IF \E i \in 1..Len(response_text) : response_text[i] = FenceJson
    THEN AfterFirst(response_text, {FenceJson})
    ELSE IF \E i \in 1..Len(response_text) : response_text[i] = Fence
    THEN AfterFirst(response_text, {Fence})
    ELSE response_text

\* json.loads: ok is FALSE when it raises; dict tells an object from any
\* other JSON value; selected is the object's selected_agent_id.
JsonLoads(text) ==
    IF Len(text) = 1 /\ text[1][1] = "object"
    THEN [ok |-> TRUE, dict |-> TRUE, selected |-> text[1][2]]
    ELSE IF Len(text) = 1 /\ text[1] = JsonArray
    THEN [ok |-> TRUE, dict |-> FALSE, selected |-> None]
    ELSE IF /\ Len(text) >= 2
            /\ text[1][1] = "object-open"
            /\ text[Len(text)] = ObjectClose
            /\ \A i \in 2..(Len(text) - 1) : text[i] \in {Prose, Fence, FenceJson}
    THEN [ok |-> TRUE, dict |-> TRUE, selected |-> text[1][2]]
    ELSE [ok |-> FALSE, dict |-> FALSE, selected |-> None]

\* str.lower() over the letters of the catalog texts.
Lower(t) == [i \in 1..Len(t) |-> IF t[i] = "M" THEN "m" ELSE t[i]]
\* needle in hay
Contains(hay, needle) ==
    \E i \in 0..(Len(hay) - Len(needle)) : SubSeq(hay, i + 1, i + Len(needle)) = needle

\* What select_best_agent gives: None, the catalog entry at index, or an
\* exception that leaves the function.
SelectNone == [kind |-> "none", index |-> 0]
SelectAgent(i) == [kind |-> "agent", index |-> i]
SelectRaised == [kind |-> "raised", index |-> 0]

RECURSIVE KeywordFallbackFrom(_, _, _)
\* The except branch, "Fallback: simple keyword matching", from entry i on:
\* .lower() raises AttributeError on a description or label that is null.
KeywordFallbackFrom(query, agentfacts, i) ==
    IF i > Len(agentfacts) THEN SelectNone
    ELSE LET description == DictGetOr(agentfacts[i].description, <<>>)
             label == DictGetOr(agentfacts[i].label, <<>>)
         IN  IF description = None \/ label = None THEN SelectRaised
             ELSE IF \/ Contains(Lower(description), Lower(query))
                     \/ Contains(Lower(label), Lower(query))
                  THEN SelectAgent(i)
             ELSE KeywordFallbackFrom(query, agentfacts, i + 1)

KeywordFallback(query, agentfacts) == KeywordFallbackFrom(query, agentfacts, 1)

\* The keyword fallback run for an identifier the catalog does not hold.
NotInCatalog_fallback(query, agentfacts) == KeywordFallback(query, agentfacts)
\* "return None" after the loop over agentfacts found no entry with the id.
NotInCatalog(query, agentfacts) == SelectNone

\* "for agent in agentfacts: if agent.get("id") == selected_id: return agent"
FindById(query, agentfacts, selected_id) ==
    LET hits == {i \in 1..Len(agentfacts) : DictGet(agentfacts[i].id) = selected_id}
    IN  IF hits = {} THEN NotInCatalog(query, agentfacts)
        ELSE SelectAgent(CHOOSE i \in hits : \A j \in hits : i <= j)

\* select_best_agent; llm is what selection_llm.call gives when it is called:
\* it raises, or it returns text.
select_best_agent(query, agentfacts, llm) ==
    IF agentfacts = <<>> THEN [result |-> SelectNone, called |-> FALSE]
    ELSE IF llm.raised
    THEN [result |-> KeywordFallback(query, agentfacts), called |-> TRUE]
    ELSE LET selection == JsonLoads(Unwrap(llm.text))
         IN  IF ~selection.ok \/ ~selection.dict
             THEN [result |-> KeywordFallback(query, agentfacts), called |-> TRUE]
             ELSE IF Falsy(selection.selected)
             THEN [result |-> SelectNone, called |-> TRUE]
             ELSE [result |-> FindById(query, agentfacts, selection.selected),
                   called |-> TRUE]

IdleSel == [pc |-> "idle", query |-> <<>>, agentfacts |-> <<>>,
            llm |-> [raised |-> TRUE, text |-> <<>>],
            result |-> SelectNone, called |-> FALSE]

\* One call of select_best_agent on the arguments drawn at the start.
Select ==
    /\ sel.pc = "start"
    /\ LET out == select_best_agent(sel.query, sel.agentfacts, sel.llm)
       IN  sel' = [sel EXCEPT !.pc = "done", !.result = out.result,
                              !.called = out.called]
    /\ UNCHANGED <<KNOWN_AGENTS, reqs, a2a_log, http_out, crew_runs, registry, blocking,
                   search>>

\* --------------------------------------------------------- /search handler
\* What fetch_agentfacts_from_db returns for an outcome of its GET: the list,
\* the value of the agents key, and [] for every failure and other shape.
fetch_agentfacts_from_db(db) ==
    IF db.kind = "ok" /\ db.shape \in {"list", "object"} THEN db.agents ELSE <<>>

\* The endpoints of a catalog entry: absent, or a static list and an optional
\* adaptive resolver whose url key may be absent.
NoEndpoints == [present |-> FALSE, static |-> <<>>, has_adaptive |-> FALSE,
                adaptive_url |-> Missing]
Endpoints(static, has_adaptive, adaptive_url) ==
    [present |-> TRUE, static |-> static, has_adaptive |-> has_adaptive,
     adaptive_url |-> adaptive_url]

\* The resolver tried before the static list.
EndpointOf_adaptive_first(endpoints) ==
    IF endpoints.has_adaptive THEN DictGet(endpoints.adaptive_url)
    ELSE IF endpoints.static # <<>> THEN endpoints.static[1]
    ELSE None
\* "Step 3: Extract the agent's endpoint URL": agent_url, None when there is none.
EndpointOf(endpoints) ==
    IF endpoints.static # <<>> THEN endpoints.static[1]
    ELSE IF endpoints.has_adaptive THEN DictGet(endpoints.adaptive_url)
    ELSE None

\* What send_query_to_url returns for an outcome of its POST.
QueryResult(agent_url, outcome) ==
    CASE outcome.kind = "timeout" -> <<"Timeout connecting to agent at", agent_url>>
      [] outcome.kind = "http_error" -> <<"Error communicating with agent">>
      [] outcome.kind = "bad_body" -> UnexpectedAnswer
      [] OTHER ->
            IF outcome.body.ty # "object" THEN UnexpectedAnswer
            ELSE IF outcome.body.answer = Missing THEN StrOf(outcome.body)
            ELSE outcome.body.answer

IdleSearch == [pc |-> "idle", query |-> <<>>, agentfacts |-> <<>>, result |-> SelectNone,
               status |-> 0, calls |-> <<>>, answer |-> None]

\* search_and_route up to "await fetch_agentfacts_from_db()".
search_and_route(query) ==
    /\ blocking = 0
    /\ search.pc = "idle"
    /\ search' = [search EXCEPT !.pc = "fetching_db", !.query = query]
    /\ UNCHANGED <<KNOWN_AGENTS, reqs, a2a_log, http_out, crew_runs, registry, blocking, sel>>

\* search_and_route from the catalog's arrival to "await send_query_to_url":
\* the selection (its language-model call is synchronous), the endpoint and
\* the URL rewrite, with the HTTPException of each early exit.
search_select(db, llm) ==
    LET agentfacts == fetch_agentfacts_from_db(db)
        selected == select_best_agent(search.query, agentfacts, llm).result
        agent_url == EndpointOf(agentfacts[selected.index].endpoints)
        done == [search EXCEPT !.pc = "done", !.agentfacts = agentfacts]
    IN  /\ blocking = 0
        /\ search.pc = "fetching_db"
        /\ search' =
              IF agentfacts = <<>> THEN [done EXCEPT !.status = 503]
              ELSE IF selected = SelectRaised
              THEN [done EXCEPT !.status = 500, !.result = selected]
              ELSE IF selected = SelectNone
              THEN [done EXCEPT !.status = 404, !.result = selected]
              ELSE IF Falsy(agent_url)
              THEN [done EXCEPT !.status = 500, !.result = selected]
              ELSE [done EXCEPT !.pc = "awaiting_agent", !.result = selected,
                                !.calls = <<[url |-> QueryUrl(agent_url),
                                             question |-> search.query]>>]
        /\ UNCHANGED <<KNOWN_AGENTS, reqs, a2a_log, http_out, crew_runs, registry,
                       blocking, sel>>

\* search_and_route resumed with the outcome of the POST: SearchResponse
\* declares agent_response a str, so another value ends in the generic 500.
search_respond(outcome) ==
    LET agent_response == QueryResult(search.calls[1].url, outcome)
    IN  /\ blocking = 0
        /\ search.pc = "awaiting_agent"
        /\ search' = [search EXCEPT !.pc = "done", !.answer = agent_response,
                                    !.status = IF HasLen(agent_response) THEN 200 ELSE 500]
        /\ UNCHANGED <<KNOWN_AGENTS, reqs, a2a_log, http_out, crew_runs, registry,
                       blocking, sel>>

\* --------------------------------------------------------------- inputs
Str_alice == <<"a", "l", "i", "c", "e">>
Str_hello == <<"h", "e", "l", "l", "o">>
Str_hi == <<"h", "i">>
Str_foo == <<"f", "o", "o">>
Str_rest_of_message ==
    <<"r", "e", "s", "t", " ", "o", "f", " ", "m", "e", "s", "s", "a", "g", "e">>
\* '@alice hello', '@a @b hi', '@foo rest of message'
Msg_alice_hello == <<"@">> \o Str_alice \o <<" ">> \o Str_hello
Msg_a_b_hi == <<"@", "a", " ", "@", "b", " ">> \o Str_hi
Msg_foo_rest == <<"@">> \o Str_foo \o <<" ">> \o Str_rest_of_message

Url_x_a2a == <<UrlHost, "/a2a">>
Url_x_query == <<UrlHost, "/query">>

\* The registry payload of the end-to-end scenario, in both shapes.
AliceElem == AgentElem(Str_alice, Missing, Url_x_a2a, Missing)
AliceListResponse == RegistryResponse("ok", ListPayload(<<AliceElem>>))
AliceObjectResponse == RegistryResponse("ok", ObjectPayload(<<AliceElem>>))

\* The text field of the inbound content: absent, text without and with a
\* mention, or not a string.
Texts == {Missing, Str_hi, Msg_alice_hello, NumberValue}
Convs == {"c1", ""}
Questions == {Str_hi}
RegisterIds == {<<"a">>, Str_alice}
RegisterUrls == {Url_x_a2a}
RegistryResponses ==
    { RegistryResponse("neterr", EmptyObjectPayload),
      AliceListResponse,
      AliceObjectResponse }

\* Registry elements: alice in the new and in the old format, "a" with an
\* endpoint that lacks the /a2a suffix, the agent itself, and an element that
\* is not an object.
AliceOldElem == AgentElem(Missing, Str_alice, Missing, Url_x_a2a)
ShortUrlElem == AgentElem(<<"a">>, Missing, <<UrlHost>>, Missing)
SelfElem == AgentElem(MY_AGENT_USERNAME, Missing, Url_x_a2a, Missing)
RefreshElems == {AliceElem, AliceOldElem, ShortUrlElem, SelfElem, BadElem}
Payloads == UNION {[1..k -> RefreshElems] : k \in 0..MaxPayload}
\* What the GET can give: a network error, a non-2xx status, a body that is
\* not JSON, and every payload as a bare array and under the agents key.
RefreshResponses ==
    {RegistryResponse(k, EmptyObjectPayload) : k \in {"neterr", "status", "bad_body", "ok"}}
    \cup {RegistryResponse("ok", ListPayload(L)) : L \in Payloads}
    \cup {RegistryResponse("ok", ObjectPayload(L)) : L \in Payloads}
\* Arguments of the registration call: the identifier may be empty or the
\* agent's own, the url is stored as given.
RefreshRegisterIds == {<<"a">>, <<>>, MY_AGENT_USERNAME}
RefreshRegisterUrls == {<<UrlHost>>, Url_x_a2a}

\* Endpoint URLs: with and without the /a2a suffix, with trailing slashes,
\* ending in /query, and with /a2a also earlier in the path.
EndpointUrls ==
    { Url_x_a2a, <<UrlHost>>, <<UrlHost, "/">>, <<UrlHost, "/", "/">>, Url_x_query,
      <<UrlHost, "/a2a", "/a2a">>, <<UrlHost, "/a2a", "/">>, <<UrlHost, "/a2a", "/query">> }
\* A registry payload that names alice with the given endpoint; the endpoint
\* may also be the empty string.
UrlResponse(u) ==
    RegistryResponse("ok", ObjectPayload(<<AgentElem(Str_alice, Missing, u, Missing)>>))
UrlResponses == {UrlResponse(u) : u \in EndpointUrls \cup {<<>>}}

\* Every text over Chars of at most MaxLen characters.
Strings == UNION {[1..k -> Chars] : k \in 0..MaxLen}
ParseTexts == Strings \cup {Msg_alice_hello, Msg_a_b_hi, Msg_foo_rest,
                            Missing, None, NumberValue}

\* The catalog: identifiers a and b; texts that hold the query in the label
\* (in another case), in the description, or nowhere, and a description that
\* is null in the stored document.
CatalogEntry(id, label, description) ==
    [id |-> id, label |-> label, description |-> description]
CatalogEntries ==
    { CatalogEntry(<<"a">>, <<"M", "x">>, <<"x">>),
      CatalogEntry(<<"a">>, <<"x">>, <<"x">>),
      CatalogEntry(<<"b">>, <<"x">>, <<"m">>),
      CatalogEntry(<<"b">>, <<"x">>, <<"x">>),
      CatalogEntry(<<"b">>, <<"m">>, None) }
Catalogs == UNION {[1..k -> CatalogEntries] : k \in 0..MaxCatalog}
Queries == {<<"m">>, <<"M">>}
\* The identifier z is in no catalog.
RespTokens ==
    { FenceJson, Fence, Prose, JsonArray, ObjectClose,
      JsonObject(<<"a">>), JsonObject(<<"z">>), JsonObject(None), ObjectOpen(<<"a">>) }
LlmOutcomes ==
    {[raised |-> TRUE, text |-> <<>>]}
    \cup {[raised |-> FALSE, text |-> t] :
             t \in UNION {[1..k -> RespTokens] : k \in 0..MaxResp}}

\* The catalog of /search: entries whose endpoints are absent, a static list
\* (with and without a resolver beside it, with a null first element, with
\* two URLs), a resolver alone (with and without its url key) or neither.
Url_y == <<"http://y">>
SearchEntry(id, label, description, endpoints) ==
    [id |-> id, label |-> label, description |-> description, endpoints |-> endpoints]
EndpointVariants ==
    { NoEndpoints,
      Endpoints(<<Url_x_a2a>>, FALSE, Missing),
      Endpoints(<<Url_x_a2a>>, TRUE, Url_y),
      Endpoints(<<Url_x_query, Url_y>>, FALSE, Missing),
      Endpoints(<<None>>, TRUE, Url_y),
      Endpoints(<<>>, TRUE, Url_y),
      Endpoints(<<>>, TRUE, Missing),
      Endpoints(<<>>, FALSE, Missing) }
SearchEntries ==
    {SearchEntry(<<"a">>, <<"x">>, <<"x">>, e) : e \in EndpointVariants}
    \cup { SearchEntry(<<"b">>, <<"x">>, <<"m">>, Endpoints(<<Url_y>>, FALSE, Missing)),
           SearchEntry(<<"b">>, <<"m">>, None, Endpoints(<<Url_x_a2a>>, FALSE, Missing)) }
SearchCatalogs == UNION {[1..k -> SearchEntries] : k \in 0..MaxCatalog}
\* The outcomes of the GET of fetch_agentfacts_from_db: a failure of the
\* request, an error status, and a JSON body that is a list, an object with
\* the agents key, or another value.
DbOutcomes ==
    { [kind |-> "neterr", shape |-> "none", agents |-> <<>>],
      [kind |-> "status", shape |-> "none", agents |-> <<>>],
      [kind |-> "ok", shape |-> "other", agents |-> <<>>] }
    \cup {[kind |-> "ok", shape |-> sh, agents |-> c] :
             sh \in {"list", "object"}, c \in SearchCatalogs}
SearchQueries == {<<"m">>}
SearchLlmOutcomes ==
    {[raised |-> TRUE, text |-> <<>>]}
    \cup {[raised |-> FALSE, text |-> <<t>>] :
             t \in {JsonObject(<<"a">>), JsonObject(<<"b">>), JsonObject(<<"z">>),
                    JsonObject(None), Prose}}

\* ------------------------------------------------------------ specifications
ServerInit ==
    /\ KNOWN_AGENTS = EmptyDirectory
    /\ reqs = <<>>
    /\ a2a_log = <<>>
    /\ http_out = <<>>
    /\ crew_runs = {}
    /\ registry = [pc |-> "idle", result |-> "none", last |-> NoResponse]
    /\ blocking = 0
    /\ search = IdleSearch

Init == ServerInit /\ sel = IdleSel

\* The server: requests, registrations and refreshes in any order.
Next ==
    \/ \E t \in Texts, c \in Convs : a2a_endpoint(DictGetOr(t, <<>>), c)
    \/ \E r \in 1..Len(reqs), o \in PeerOutcomes : a2a_endpoint_resume(r, o)
    \/ \E q \in Questions : query_agent(q)
    \/ \E ok \in BOOLEAN : query_agent_return(ok)
    \/ \E id \in RegisterIds, u \in RegisterUrls : register_agent(id, u)
    \/ fetch_agents_from_registry
    \/ \E o \in RegistryResponses : fetch_agents_return(o)

Spec == Init /\ [][Next]_vars

\* One /a2a request with any text of ParseTexts, on a directory that is
\* empty or knows "a".
NextParse ==
    \/ Len(reqs) = 0 /\ \E t \in ParseTexts : a2a_endpoint(DictGetOr(t, <<>>), "c1")
    \/ \E r \in 1..Len(reqs), o \in PeerOutcomes : a2a_endpoint_resume(r, o)
    \/ register_agent(<<"a">>, Url_x_a2a)

SpecParse == Init /\ [][NextParse]_vars

\* The server's requests under the scheduling the code provides: the client
\* timeout of an awaited POST expires although the peer never answers, and a
\* crew run that holds the event loop ends.
TimeoutOutcome == [kind |-> "timeout", body |-> [ty |-> "null", answer |-> Missing]]
NextLive ==
    \/ \E t \in Texts : a2a_endpoint(DictGetOr(t, <<>>), "c1")
    \/ \E r \in 1..Len(reqs), o \in PeerOutcomes : a2a_endpoint_resume(r, o)
    \/ \E q \in Questions : query_agent(q)
    \/ \E ok \in BOOLEAN : query_agent_return(ok)
    \/ register_agent(Str_alice, Url_x_a2a)

SpecLive ==
    /\ Init
    /\ [][NextLive]_vars
    /\ \A r \in 1..MaxReqs : WF_vars(a2a_endpoint_resume(r, TimeoutOutcome))
    /\ WF_vars(\E ok \in BOOLEAN : query_agent_return(ok))

\* One forward to alice, whose endpoint was stored by the registration call
\* (as given) or by a refresh (normalised), for every endpoint URL.
NextUrl ==
    \/ \E u \in EndpointUrls : register_agent(Str_alice, u)
    \/ fetch_agents_from_registry
    \/ \E o \in UrlResponses : fetch_agents_return(o)
    \/ Len(reqs) = 0 /\ a2a_endpoint(Msg_alice_hello, "c1")
    \/ \E r \in 1..Len(reqs), o \in PeerOutcomes : a2a_endpoint_resume(r, o)

SpecUrl == Init /\ [][NextUrl]_vars

\* The directory alone: registrations and refreshes with every enumerated
\* registry response, in any order.
NextRefresh ==
    \/ \E id \in RefreshRegisterIds, u \in RefreshRegisterUrls : register_agent(id, u)
    \/ fetch_agents_from_registry
    \/ \E o \in RefreshResponses : fetch_agents_return(o)

SpecRefresh == Init /\ [][NextRefresh]_vars

\* One call of select_best_agent for every query, catalog and outcome of the
\* language-model call.
InitSelect ==
    /\ ServerInit
    /\ \E q \in Queries, c \in Catalogs, l \in LlmOutcomes :
           sel = [IdleSel EXCEPT !.pc = "start", !.query = q, !.agentfacts = c, !.llm = l]

NextSelect == Select

SpecSelect == InitSelect /\ [][NextSelect]_vars

\* Forwards, refreshes and registrations on the shared directory, in any
\* order: alice is registered by hand at http://y and by the registry at
\* http://x/a2a, "a" by the registry alone; a forward stays suspended while
\* the other handlers run.
SharedTexts == {Msg_alice_hello, Msg_a_b_hi}
SharedResponses ==
    { RegistryResponse("neterr", EmptyObjectPayload),
      AliceObjectResponse,
      RegistryResponse("ok", ObjectPayload(<<ShortUrlElem, AliceElem>>)),
      RegistryResponse("ok", ObjectPayload(<<AliceOldElem, SelfElem>>)),
      RegistryResponse("ok", ObjectPayload(<<AliceElem, BadElem>>)) }
SharedOutcomes ==
    {o \in PeerOutcomes :
        o.kind = "timeout" \/ (o.kind = "ok" /\ o.body.ty = "object" /\ o.body.answer = Str_hi)}
NextShared ==
    \/ \E t \in SharedTexts : a2a_endpoint(t, "c1")
    \/ \E r \in 1..Len(reqs), o \in SharedOutcomes : a2a_endpoint_resume(r, o)
    \/ register_agent(Str_alice, Url_y)
    \/ fetch_agents_from_registry
    \/ \E o \in SharedResponses : fetch_agents_return(o)

SpecShared == Init /\ [][NextShared]_vars

\* One /search request for every catalog the database returns, every outcome
\* of the language-model call and every outcome of the POST to the agent.
NextSearch ==
    \/ \E q \in SearchQueries : search_and_route(q)
    \/ \E db \in DbOutcomes, llm \in SearchLlmOutcomes : search_select(db, llm)
    \/ \E o \in PeerOutcomes : search_respond(o)

SpecSearch == Init /\ [][NextSearch]_vars

\* ------------------------------------------------- the claims' vocabulary
\* Stated from the contract, apart from the operators that model the code.
MentionCharSet == WordChars \cup {"-"}
\* The positions of the '@' that are followed by a word or hyphen character.
MentionStarts(s) ==
    {i \in 1..Len(s) : s[i] = "@" /\ i < Len(s) /\ s[i + 1] \in MentionCharSet}
HasMention(s) == IsStr(s) /\ MentionStarts(s) # {}
FirstMention(s) == CHOOSE i \in MentionStarts(s) : \A j \in MentionStarts(s) : i <= j
\* The last character of the token of the mention at i.
MentionEnd(s, i) ==
    CHOOSE e \in (i + 1)..Len(s) :
        /\ \A k \in (i + 1)..e : s[k] \in MentionCharSet
        /\ e = Len(s) \/ s[e + 1] \notin MentionCharSet
\* The last character of the whitespace run that follows position e.
BlankEnd(s, e) ==
    CHOOSE w \in e..Len(s) :
        /\ \A k \in (e + 1)..w : s[k] \in SpaceChars
        /\ w = Len(s) \/ s[w + 1] \notin SpaceChars
FirstToken(s) == SubSeq(s, FirstMention(s) + 1, MentionEnd(s, FirstMention(s)))
\* s without its first '@token' and the whitespace run after it.
WithoutFirstMention(s) ==
    LET i == FirstMention(s)
        w == BlankEnd(s, MentionEnd(s, i))
    IN  SubSeq(s, 1, i - 1) \o SubSeq(s, w + 1, Len(s))

A2ARequests == {r \in 1..Len(reqs) : reqs[r].kind = "a2a"}
\* The audit events and the outbound calls of request r, in order.
EventsOf(r) == SelectSeq(a2a_log, LAMBDA e : e.req = r)
EventKinds(r) == [i \in 1..Len(EventsOf(r)) |-> EventsOf(r)[i].kind]
CallsOf(r) == SelectSeq(http_out, LAMBDA c : c.req = r)

\* C1: every /a2a request whose text holds no mention (the empty string and a
\* text that is not a string included) ends Rejected with status 400, never
\* Responded and never with status 500.
C1_NoMentionAlwaysRejected ==
    \A r \in A2ARequests :
        ~HasMention(reqs[r].text) =>
            reqs[r].state = "Rejected" /\ reqs[r].status = 400

\* C2: a request on the no-mention path routes nothing: no outbound call, no
\* crew run, no ROUTING or SUCCESS event, and its audit events are INCOMING
\* then NO_TARGET.
C2_NoMentionRoutesNothing ==
    \A r \in A2ARequests :
        ~HasMention(reqs[r].text) =>
            /\ CallsOf(r) = <<>>
            /\ r \notin crew_runs
            /\ \A i \in 1..Len(EventsOf(r)) : EventKinds(r)[i] \notin {"ROUTING", "SUCCESS"}
            /\ IsStr(reqs[r].text) =>
                   /\ EventKinds(r) = <<"INCOMING", "NO_TARGET">>
                   /\ reqs[r].state = "Rejected"

\* A rejected request beside another request that was forwarded.
C2_Witness ==
    \E r \in A2ARequests :
        /\ IsStr(reqs[r].text) /\ ~HasMention(reqs[r].text)
        /\ reqs[r].state = "Rejected"
        /\ EventKinds(r) = <<"INCOMING", "NO_TARGET">>
        /\ http_out # <<>>

\* C3: once a refresh has returned for the bare array [{agent_id: alice,
\* endpoint: http://x/a2a}], the message '@alice hello' on conversation c1
\* issues exactly one POST to http://x/query with body {question: hello,
\* user_id: agent-<own username>}, and on the answer 'hi' the response text is
\* '[Forwarded to @alice]\n\nhi' with conversation_id c1.
C3_EndToEnd ==
    [][\A r \in 1..Len(reqs') :
          (/\ reqs'[r].kind = "a2a"
           /\ reqs'[r].text = Msg_alice_hello
           /\ reqs'[r].conv = "c1") =>
              /\ (r > Len(reqs) /\ registry.pc = "idle"
                    /\ registry.last = AliceListResponse) =>
                     http_out' = Append(http_out,
                         [req |-> r, url |-> Url_x_query, question |-> Str_hello,
                          user_id |-> CallerTag])
              /\ (r <= Len(reqs) /\ reqs[r].pc = "awaiting_peer"
                    /\ reqs'[r].answer = Str_hi) =>
                     /\ Len(CallsOf(r)') = 1
                     /\ reqs'[r].response.text =
                            <<"[Forwarded to @", Str_alice, "]\n\n", Str_hi>>
                     /\ reqs'[r].response.conversation_id = "c1"]_vars

\* C4: a forward to a target that is absent from the directory yields the
\* unknown-agent answer, which lists the identifiers the directory holds at
\* that moment, and issues no outbound call.
C4_UnknownAgentNoTransport ==
    [][\A r \in 1..Len(reqs') :
          (/\ r > Len(reqs)
           /\ reqs'[r].kind = "a2a"
           /\ HasMention(reqs'[r].text)
           /\ FirstToken(reqs'[r].text) \notin DOMAIN KNOWN_AGENTS) =>
              /\ http_out' = http_out
              /\ reqs'[r].pc = "done"
              /\ reqs'[r].answer = NotFoundAnswer(FirstToken(reqs'[r].text),
                                                  DOMAIN KNOWN_AGENTS)]_vars

\* An unknown target answered from a directory that is not empty.
C4_Witness ==
    \E r \in A2ARequests :
        /\ reqs[r].answer = NotFoundAnswer(Str_alice, {<<"a">>})
        /\ CallsOf(r) = <<>>

\* C5: for a text without a mention (the empty text and a bare '@' included)
\* the parser returns no target and the text unchanged.
C5_NoMentionUnchanged ==
    \A r \in A2ARequests :
        (IsStr(reqs[r].text) /\ ~HasMention(reqs[r].text)) =>
            reqs[r].target = None /\ reqs[r].clean = reqs[r].text

\* A parsed text with a bare '@' in it.
C5_Witness ==
    \E r \in A2ARequests :
        /\ reqs[r].text = <<"a", "@", " ", "a">>
        /\ reqs[r].target = None
        /\ reqs[r].clean = reqs[r].text

\* C6: for a text with a mention the parser returns the token of the first
\* mention, and the text with that first '@token' and the whitespace run
\* after it removed once; '@foo rest of message' gives ('foo', 'rest of
\* message').
C6_FirstMentionRemovedOnce ==
    \A r \in A2ARequests :
        /\ HasMention(reqs[r].text) =>
               /\ reqs[r].target = FirstToken(reqs[r].text)
               /\ reqs[r].clean = WithoutFirstMention(reqs[r].text)
        /\ reqs[r].text = Msg_foo_rest =>
               reqs[r].target = Str_foo /\ reqs[r].clean = Str_rest_of_message

\* A mention inside the text, followed by two blanks.
C6_Witness ==
    \E r \in A2ARequests :
        /\ reqs[r].text = <<"-", "@", "a", " ", " ">>
        /\ reqs[r].target = <<"a">>
        /\ reqs[r].clean = <<"-">>

\* C7: with two or more mentions only the first is consumed: the text after
\* the removed part, which holds every later mention, is kept character by
\* character, and the request makes at most one forward, to the first
\* target; '@a @b hi' gives ('a', '@b hi').
C7_OnlyFirstMentionHonored ==
    \A r \in A2ARequests :
        /\ (HasMention(reqs[r].text) /\ Cardinality(MentionStarts(reqs[r].text)) >= 2) =>
               LET s == reqs[r].text
                   i == FirstMention(s)
                   w == BlankEnd(s, MentionEnd(s, i))
                   cut == w - i + 1
               IN  /\ reqs[r].target = FirstToken(s)
                   /\ Len(reqs[r].clean) = Len(s) - cut
                   /\ \A j \in MentionStarts(s) \ {i} :
                          /\ j > w
                          /\ \A k \in j..MentionEnd(s, j) : reqs[r].clean[k - cut] = s[k]
                   /\ \A k \in (w + 1)..Len(s) : reqs[r].clean[k - cut] = s[k]
                   /\ Len(CallsOf(r)) <= 1
                   /\ \A n \in 1..Len(CallsOf(r)) :
                          /\ FirstToken(s) \in DOMAIN KNOWN_AGENTS
                          /\ CallsOf(r)[n].url = QueryUrl(KNOWN_AGENTS[FirstToken(s)])
                          /\ CallsOf(r)[n].question = reqs[r].clean
        /\ reqs[r].text = Msg_a_b_hi =>
               /\ reqs[r].target = <<"a">>
               /\ reqs[r].clean = <<"@", "b", " ", "h", "i">>

\* '@a @b hi' forwarded once, to a, and answered.
C7_Witness ==
    \E r \in A2ARequests :
        /\ reqs[r].text = Msg_a_b_hi
        /\ reqs[r].state = "Responded"
        /\ Len(CallsOf(r)) = 1
        /\ CallsOf(r)[1].question = <<"@", "b", " ", "h", "i">>

\* C8: a target the parser returns is a non-empty string over [A-Za-z0-9_-].
C8_TargetIsAsciiToken ==
    \A r \in A2ARequests :
        reqs[r].target # None =>
            /\ reqs[r].target # <<>>
            /\ \A i \in 1..Len(reqs[r].target) :
                   reqs[r].target[i] \in AsciiWordChars \cup {"-"}

\* The selector's vocabulary, stated from the contract.
\* text is the text of one JSON object whose selected_agent_id is id.
IsJsonNaming(text, id) ==
    \/ text = <<JsonObject(id)>>
    \/ /\ Len(text) >= 2
       /\ text[1] = ObjectOpen(id)
       /\ text[Len(text)] = ObjectClose
       /\ \A i \in 2..(Len(text) - 1) : text[i] \in {Prose, Fence, FenceJson}
\* text is such a JSON object between an opening and a closing fence marker.
IsFencedJsonNaming(text, id) ==
    /\ Len(text) >= 3
    /\ text[1] \in {Fence, FenceJson}
    /\ text[Len(text)] = Fence
    /\ IsJsonNaming(SubSeq(text, 2, Len(text) - 1), id)
ValidJsonNaming(text, id) == IsJsonNaming(text, id) \/ IsFencedJsonNaming(text, id)
\* The same, the JSON text itself holding no fence marker.
NoFenceIn(text) == \A i \in 1..Len(text) : text[i] \notin {Fence, FenceJson}
PlainJsonNaming(text, id) ==
    \/ IsJsonNaming(text, id) /\ NoFenceIn(text)
    \/ IsFencedJsonNaming(text, id) /\ NoFenceIn(SubSeq(text, 2, Len(text) - 1))
SelectedIds == {<<"a">>, <<"z">>}
CatalogIds(agentfacts) == {agentfacts[i].id : i \in 1..Len(agentfacts)}
\* A finished call whose language-model call returned text.
SelectAnswered == sel.pc = "done" /\ sel.agentfacts # <<>> /\ ~sel.llm.raised
\* The first entry whose label or description holds the query, whatever the
\* case of the letters; None when there is none.
FirstKeywordMatch(query, agentfacts) ==
    LET hits == {i \in 1..Len(agentfacts) :
                    \/ Contains(Lower(agentfacts[i].label), Lower(query))
                    \/ Contains(Lower(agentfacts[i].description), Lower(query))}
    IN  IF hits = {} THEN SelectNone
        ELSE SelectAgent(CHOOSE i \in hits : \A j \in hits : i <= j)

\* What the keyword fallback gives on a catalog that may hold null texts: the
\* AttributeError of the first entry with a null label or description, when
\* that entry comes no later than the first match.
FallbackOutcome(query, agentfacts) ==
    LET m == FirstKeywordMatch(query, agentfacts)
        n == IF m.kind = "agent" THEN m.index ELSE Len(agentfacts)
    IN  IF \E i \in 1..n : agentfacts[i].label = None \/ agentfacts[i].description = None
        THEN SelectRaised ELSE m
\* The output holds no JSON object at all: prose, fence markers, a JSON array.
NoJsonObject(text) ==
    \A i \in 1..Len(text) : text[i] \in {Prose, Fence, FenceJson, JsonArray, ObjectClose}
\* A finished call whose language-model call failed or gave no JSON object.
SelectFailed ==
    /\ sel.pc = "done"
    /\ sel.agentfacts # <<>>
    /\ sel.llm.raised \/ NoJsonObject(sel.llm.text)

\* C9: when the model's output, bare or wrapped in a code fence, is valid
\* JSON whose selected_agent_id is the identifier of a catalog entry, select
\* returns that entry.
C9_ValidSelectionReturned ==
    \A id \in SelectedIds :
        (/\ SelectAnswered
         /\ ValidJsonNaming(sel.llm.text, id)
         /\ id \in CatalogIds(sel.agentfacts)) =>
            /\ sel.result.kind = "agent"
            /\ sel.agentfacts[sel.result.index].id = id

C11_FallbackOnFailure ==
    SelectFailed =>
        /\ sel.result # SelectRaised
        /\ sel.result = FirstKeywordMatch(sel.query, sel.agentfacts)

\* The part of C11 the code keeps: on a catalog without null texts the
\* fallback answers as stated.
C11_FallbackOnTexts ==
    (/\ SelectFailed
     /\ \A i \in 1..Len(sel.agentfacts) :
            sel.agentfacts[i].label # None /\ sel.agentfacts[i].description # None) =>
        sel.result = FirstKeywordMatch(sel.query, sel.agentfacts)

\* ---------------------------------------------- the directory's vocabulary
\* Stated from the contract: an element carries its identifier under agent_id
\* or username and its URL under endpoint or url; a stored URL ends in /a2a.
ElemId(e) == IF e.agent_id # Missing THEN e.agent_id ELSE e.username
ElemUrl(e) == IF e.endpoint # Missing THEN e.endpoint ELSE e.url
WellFormed(L) == \A i \in 1..Len(L) : L[i].dict
Registered(e) == ElemId(e) \notin {Missing, <<>>, MY_AGENT_USERNAME}
\* url without its trailing slashes.
Stripped(url) ==
    LET keep == {i \in 1..Len(url) : url[i] # "/"}
        n == IF keep = {} THEN 0 ELSE CHOOSE i \in keep : \A j \in keep : j <= i
    IN  SubSeq(url, 1, n)
WithA2ASuffix(url) ==
    IF Len(url) > 0 /\ url[Len(url)] = "/a2a" THEN url
    ELSE Stripped(url) \o <<"/a2a">>
\* The identifiers a payload of well-formed elements registers.
PayloadIds(L) == {ElemId(L[i]) : i \in {j \in 1..Len(L) : L[j].dict /\ Registered(L[j])}}
\* The directory after a payload of well-formed elements: each registered
\* identifier maps to the URL of its last element, the rest is kept.
Expected(dir, L) ==
    [id \in DOMAIN dir \cup PayloadIds(L) |->
        IF id \in PayloadIds(L)
        THEN LET at == {i \in 1..Len(L) : ElemId(L[i]) = id}
                 last == CHOOSE i \in at : \A j \in at : j <= i
             IN  WithA2ASuffix(ElemUrl(L[last]))
        ELSE dir[id]]
\* The step in which a refresh resumes with the registry's response.
RefreshStep == registry.pc = "fetching" /\ registry'.pc = "idle"
\* The response is a 2xx JSON body of well-formed elements, in either shape.
GoodResponse(o) == o.kind = "ok" /\ WellFormed(o.data.agents)

\* C12: a refresh with a payload of well-formed elements, as a bare array or
\* under the agents key, succeeds and leaves the directory the payload
\* describes, elements in the old and in the new format giving the same entry.
C12_BothShapesAccepted ==
    [][(RefreshStep /\ GoodResponse(registry'.last)) =>
          /\ registry'.result = "True"
          /\ KNOWN_AGENTS' = Expected(KNOWN_AGENTS, registry'.last.data.agents)]_vars

\* The part of C12 the code keeps: the object shape, with both element formats.
C12_ObjectShapeAccepted ==
    [][(/\ RefreshStep
        /\ GoodResponse(registry'.last)
        /\ registry'.last.data.shape = "object") =>
          /\ registry'.result = "True"
          /\ KNOWN_AGENTS' = Expected(KNOWN_AGENTS, registry'.last.data.agents)]_vars

\* C13: a refresh that fails (network error, non-2xx status, malformed body,
\* a malformed element anywhere in the payload) reports the failure and
\* leaves the directory as it was.
C13_FailureKeepsDirectory ==
    [][(RefreshStep /\ ~GoodResponse(registry'.last)) =>
          /\ registry'.result = "False"
          /\ KNOWN_AGENTS' = KNOWN_AGENTS]_vars

\* The part of C13 the code keeps: every failure is reported as the result,
\* and a response that is no 2xx JSON body leaves the directory as it was.
C13_FailureReported ==
    [][(RefreshStep /\ ~GoodResponse(registry'.last)) =>
          /\ registry'.result = "False"
          /\ registry'.last.kind # "ok" => KNOWN_AGENTS' = KNOWN_AGENTS]_vars

\* C14: a second refresh with the payload of the refresh that just ended
\* leaves the directory that refresh left.
C14_RefreshIdempotent ==
    [][RefreshStep =>
          fetch_result(KNOWN_AGENTS', registry'.last).dir = KNOWN_AGENTS']_vars

\* A refresh that registered two agents has ended.
C14_Witness ==
    /\ registry.pc = "idle"
    /\ registry.last = RegistryResponse("ok", ObjectPayload(<<ShortUrlElem, AliceElem>>))
    /\ DOMAIN KNOWN_AGENTS = {<<"a">>, Str_alice}

\* C15: a refresh neither inserts nor overwrites the entry of the agent's own
\* identifier, and the payload's other elements are registered.
C15_OwnIdentifierSkipped ==
    [][RefreshStep =>
          /\ (MY_AGENT_USERNAME \in DOMAIN KNOWN_AGENTS')
                 = (MY_AGENT_USERNAME \in DOMAIN KNOWN_AGENTS)
          /\ MY_AGENT_USERNAME \in DOMAIN KNOWN_AGENTS =>
                 KNOWN_AGENTS'[MY_AGENT_USERNAME] = KNOWN_AGENTS[MY_AGENT_USERNAME]
          /\ (GoodResponse(registry'.last) /\ registry'.last.data.shape = "object") =>
                 PayloadIds(registry'.last.data.agents) \subseteq DOMAIN KNOWN_AGENTS']_vars

\* A payload that names the agent itself before alice registered alice only,
\* and an own entry made by the registration call kept its URL.
C15_Witness ==
    /\ registry.pc = "idle"
    /\ registry.last = RegistryResponse("ok", ObjectPayload(<<SelfElem, AliceElem>>))
    /\ DOMAIN KNOWN_AGENTS = {Str_alice, MY_AGENT_USERNAME}
    /\ KNOWN_AGENTS[MY_AGENT_USERNAME] = <<UrlHost>>

\* C16: every identifier in the directory is a non-empty string (a mapping
\* holds no identifier twice).
C16_IdentifiersNonEmpty ==
    \A id \in DOMAIN KNOWN_AGENTS : IsStr(id) /\ id # <<>>

\* C17: every response envelope of /a2a carries the conversation_id of its
\* request, the empty one and one shared by concurrent requests included.
C17_ConversationIdPassedThrough ==
    \A r \in A2ARequests :
        /\ reqs[r].status = 200 =>
               reqs[r].response.conversation_id = reqs[r].conv
        /\ reqs[r].status # 200 => reqs[r].response = NoEnvelope

\* Two requests that awaited their peers at the same time, one on "c1" and
\* one on the empty conversation, have both been answered.
C17_Witness ==
    /\ Len(reqs) = 2
    /\ reqs[1].conv = "c1" /\ reqs[2].conv = ""
    /\ reqs[1].status = 200 /\ reqs[2].status = 200
    /\ [i \in 1..Len(a2a_log) |-> a2a_log[i].req] = <<1, 1, 2, 2, 1, 2>>

\* C18: the registration call maps its identifier to exactly its url and
\* leaves every other entry alone; a refresh that succeeds replaces the entry
\* of every identifier it names (the last write wins).
C18_RegisterOverwrites ==
    [][/\ \A id \in RefreshRegisterIds, u \in RefreshRegisterUrls :
              register_agent(id, u) =>
                  /\ DOMAIN KNOWN_AGENTS' = DOMAIN KNOWN_AGENTS \cup {id}
                  /\ KNOWN_AGENTS'[id] = u
                  /\ \A k \in DOMAIN KNOWN_AGENTS \ {id} :
                         KNOWN_AGENTS'[k] = KNOWN_AGENTS[k]
       /\ (RefreshStep /\ registry'.result = "True") =>
              \A i \in 1..Len(registry'.last.data.agents) :
                  LET L == registry'.last.data.agents
                  IN  (/\ Registered(L[i])
                       /\ \A j \in (i + 1)..Len(L) : ElemId(L[j]) # ElemId(L[i])) =>
                          KNOWN_AGENTS'[ElemId(L[i])] = WithA2ASuffix(ElemUrl(L[i]))]_vars

\* A refresh stored a under http://x/a2a and a later registration replaced
\* the url: only the registration call stores a url without the suffix.
C18_Witness ==
    /\ registry.pc = "idle"
    /\ registry.result = "True"
    /\ registry.last = RegistryResponse("ok", ObjectPayload(<<ShortUrlElem>>))
    /\ <<"a">> \in DOMAIN KNOWN_AGENTS
    /\ KNOWN_AGENTS[<<"a">>] = <<UrlHost>>

\* C19: no step removes an identifier from the directory, and a refresh
\* leaves the endpoint of every identifier its payload does not name.
C19_NeverDeleted ==
    [][/\ DOMAIN KNOWN_AGENTS \subseteq DOMAIN KNOWN_AGENTS'
       /\ RefreshStep =>
              \A id \in DOMAIN KNOWN_AGENTS :
                  id \notin PayloadIds(registry'.last.data.agents) =>
                      KNOWN_AGENTS'[id] = KNOWN_AGENTS[id]]_vars

\* The directory holds a, which the last payload did not name, beside alice,
\* and a request has been forwarded and answered.
C19_Witness ==
    /\ registry.pc = "idle"
    /\ registry.last = AliceObjectResponse
    /\ DOMAIN KNOWN_AGENTS = {<<"a">>, Str_alice}
    /\ \E r \in A2ARequests : reqs[r].state = "Responded" /\ Len(CallsOf(r)) = 1

\* C20: at most one outbound call is issued for a /a2a request, also once
\* the call has ended in a timeout or a transport error.
C20_SingleAttempt ==
    \A r \in A2ARequests :
        /\ Len(CallsOf(r)) <= 1
        /\ reqs[r].pc = "awaiting_peer" => Len(CallsOf(r)) = 1

\* A request whose call timed out has been answered after its one call.
C20_Witness ==
    \E r \in A2ARequests :
        /\ reqs[r].state = "Responded"
        /\ reqs[r].answer = TimeoutAnswer(reqs[r].target)
        /\ Len(CallsOf(r)) = 1

\* C21: every /a2a request reaches one of Rejected, Responded and Errored and
\* stays in it, also when its peer never answers: the wait ends with the
\* client's timeout.
Terminal == {"Rejected", "Responded", "Errored"}
Suspended(pcs) ==
    \/ "fetching" \in pcs /\ registry.pc = "fetching"
    \/ \E r \in 1..Len(reqs) : reqs[r].pc \in pcs
C22_LoopStaysFree ==
    (Suspended({"fetching", "awaiting_peer", "in_crew"}) /\ Len(reqs) < MaxReqs) =>
        ENABLED a2a_endpoint(Str_hi, "c1")

\* The part of C22 the code keeps: the awaited registry fetch and the awaited
\* peer forward leave the loop free.
C22_AwaitsLeaveLoopFree ==
    (/\ Suspended({"fetching", "awaiting_peer"})
     /\ ~Suspended({"in_crew"})
     /\ Len(reqs) < MaxReqs) =>
        ENABLED a2a_endpoint(Str_hi, "c1")

\* ------------------------------------------------ the forwarder's vocabulary
\* What the contract gives for a 2xx body: the answer field of an object that
\* has one, the body as a string otherwise.
ExpectedAnswer(body) ==
    IF body.ty = "object" /\ body.answer # Missing THEN body.answer ELSE StrOf(body)
\* The forward of request r failed: unknown agent, timeout or transport error.
ForwardFailed(r) ==
    \/ \E known \in SUBSET {<<"a">>, Str_alice} :
           reqs[r].answer = NotFoundAnswer(reqs[r].target, known)
    \/ reqs[r].answer \in {TimeoutAnswer(reqs[r].target), HTTPErrorAnswer(reqs[r].target)}
\* The /a2a requests with a mention whose handler has ended.
RoutedAndDone == {r \in A2ARequests : HasMention(reqs[r].text) /\ reqs[r].pc = "done"}

\* C23: for a 2xx peer response the forwarder returns the answer field of an
\* object body and the whole body as a string for every other JSON body.
C23_PeerBodyTolerated ==
    [][\A r \in 1..Len(reqs), o \in PeerOutcomes :
          (a2a_endpoint_resume(r, o) /\ o.kind = "ok") =>
              reqs'[r].answer = ExpectedAnswer(o.body)]_vars

\* The part of C23 the code keeps: object bodies, with and without an answer.
C23_ObjectBodyTolerated ==
    [][\A r \in 1..Len(reqs), o \in PeerOutcomes :
          (a2a_endpoint_resume(r, o) /\ o.kind = "ok" /\ o.body.ty = "object") =>
              reqs'[r].answer = ExpectedAnswer(o.body)]_vars

\* C24: the audit events of a request with a mention are INCOMING, ROUTING
\* and one closing event, which is SUCCESS only when the forward did not fail.
C24_AuditOrder ==
    \A r \in RoutedAndDone :
        /\ Len(EventKinds(r)) = 3
        /\ SubSeq(EventKinds(r), 1, 2) = <<"INCOMING", "ROUTING">>
        /\ EventKinds(r)[3] \in {"SUCCESS", "ERROR"}
        /\ ForwardFailed(r) => EventKinds(r)[3] # "SUCCESS"

\* The part of C24 the code keeps: the order and the single closing event.
C24_AuditOrderOnly ==
    \A r \in RoutedAndDone :
        /\ Len(EventKinds(r)) = 3
        /\ SubSeq(EventKinds(r), 1, 2) = <<"INCOMING", "ROUTING">>
        /\ EventKinds(r)[3] \in {"SUCCESS", "ERROR"}

\* C28: every /a2a request with a mention ends as a 200 envelope whose text
\* starts with the forwarding header, whatever the outcome of the forward.
C28_ForwardAlwaysAnswers ==
    \A r \in RoutedAndDone :
        /\ reqs[r].state = "Responded"
        /\ reqs[r].status = 200
        /\ SubSeq(reqs[r].response.text, 1, 3) = <<"[Forwarded to @", reqs[r].target, "]\n\n">>

\* The part of C28 the code keeps: a forward that failed is answered 200.
C28_FailedForwardAnswers ==
    \A r \in RoutedAndDone :
        ForwardFailed(r) \/ reqs[r].answer = UnexpectedAnswer =>
            /\ reqs[r].state = "Responded"
            /\ reqs[r].status = 200
            /\ SubSeq(reqs[r].response.text, 1, 3) = <<"[Forwarded to @", reqs[r].target, "]\n\n">>

\* ------------------------------------------------------ URLs, from the contract
\* The URL to call for a stored endpoint: a trailing /a2a swapped for /query,
\* a trailing /query kept, /query appended after the trailing slashes
\* otherwise; nothing but the end of the URL changes.
WithQuerySuffix(url) ==
    IF Len(url) > 0 /\ url[Len(url)] = "/a2a"
    THEN SubSeq(url, 1, Len(url) - 1) \o <<"/query">>
    ELSE IF Len(url) > 0 /\ url[Len(url)] = "/query" THEN url
    ELSE Stripped(url) \o <<"/query">>
\* The step in which a2a_endpoint issues the POST of a new request.
ForwardStep == Len(reqs') = Len(reqs) + 1 /\ Len(http_out') = Len(http_out) + 1

\* C25: the URL the forwarder calls is the stored endpoint with only its end
\* changed, also when /a2a occurs earlier in the URL.
C25_QuerySuffixSwapped ==
    [][ForwardStep =>
          http_out'[Len(http_out')].url =
              WithQuerySuffix(KNOWN_AGENTS[reqs'[Len(reqs')].target])]_vars

\* The part of C25 the code keeps: endpoints that hold /a2a at their end only.
C25_QuerySuffixOnPlainUrls ==
    [][(/\ ForwardStep
        /\ LET url == KNOWN_AGENTS[reqs'[Len(reqs')].target]
           IN  \A i \in 1..(Len(url) - 1) : url[i] # "/a2a") =>
          http_out'[Len(http_out')].url =
              WithQuerySuffix(KNOWN_AGENTS[reqs'[Len(reqs')].target])]_vars

\* C26: the endpoint a refresh stores ends with /a2a: the registry's URL
\* itself when it ends so, else that URL without its trailing slashes and
\* with /a2a appended; a refresh from the stored value leaves it as it is.
C26_StoredUrlEndsWithA2A ==
    [][\A u \in EndpointUrls \cup {<<>>} :
          (RefreshStep /\ registry'.last = UrlResponse(u)) =>
              LET stored == KNOWN_AGENTS'[Str_alice]
              IN  /\ registry'.result = "True"
                  /\ stored[Len(stored)] = "/a2a"
                  /\ stored = IF Len(u) > 0 /\ u[Len(u)] = "/a2a" THEN u
                              ELSE Stripped(u) \o <<"/a2a">>
                  /\ fetch_result(KNOWN_AGENTS', UrlResponse(stored)).dir
                         = KNOWN_AGENTS']_vars

\* A registry URL with two trailing slashes was stored as http://x/a2a.
C26_Witness ==
    /\ registry.pc = "idle"
    /\ registry.last = UrlResponse(<<UrlHost, "/", "/">>)
    /\ Str_alice \in DOMAIN KNOWN_AGENTS
    /\ KNOWN_AGENTS[Str_alice] = Url_x_a2a

\* ------------------------------------------------------ /search, from the contract
\* The endpoint of a catalog entry: the first static endpoint when the static
\* list is non-empty, otherwise the adaptive resolver's URL; None without one.
ChosenEndpoint(entry) ==
    IF entry.endpoints.static # <<>> THEN entry.endpoints.static[1]
    ELSE IF entry.endpoints.has_adaptive /\ entry.endpoints.adaptive_url # Missing
    THEN entry.endpoints.adaptive_url
    ELSE None
\* The catalog is non-empty, the selector returned an entry, the entry has an
\* endpoint.
Routable ==
    /\ search.agentfacts # <<>>
    /\ search.result.kind = "agent"
    /\ ChosenEndpoint(search.agentfacts[search.result.index]) # None
SearchDecided == search.pc \in {"awaiting_agent", "done"}

\* C27: a /search request sends exactly one query, to the entry's first static
\* endpoint or else its resolver URL, when the catalog is non-empty and the
\* selector returned an entry with an endpoint; otherwise it sends none and
\* ends with 503 (no catalog), 404 (no entry selected) or 500 (no endpoint,
\* or the selection failed).
C27_OneQueryWhenRoutable ==
    SearchDecided =>
        IF Routable
        THEN /\ Len(search.calls) = 1
             /\ search.calls[1].url =
                    WithQuerySuffix(ChosenEndpoint(search.agentfacts[search.result.index]))
             /\ search.calls[1].question = search.query
        ELSE /\ search.calls = <<>>
             /\ search.pc = "done"
             /\ search.status = IF search.agentfacts = <<>> THEN 503
                                ELSE IF search.result.kind = "none" THEN 404
                                ELSE 500

\* An entry with an empty static list and a resolver was selected and answered.
C27_Witness ==
    /\ search.pc = "done"
    /\ search.status = 200
    /\ search.result.kind = "agent"
    /\ search.agentfacts[search.result.index].endpoints = Endpoints(<<>>, TRUE, Url_y)
    /\ search.calls = <<[url |-> Url_y \o <<"/query">>, question |-> <<"m">>]>>

\* ------------------------------------------------------ C30
\* The result is None or an entry of the catalog the call was given.
FromCatalog(result, agentfacts) ==
    \/ result = SelectNone
    \/ result.kind = "agent" /\ result.index \in 1..Len(agentfacts)

\* C30: for every query, catalog and language-model outcome the selection
\* returns None or an entry of the catalog, and for an empty catalog it
\* returns None without calling the language model.
C30_NoneOrCatalogEntry ==
    sel.pc = "done" =>
        /\ FromCatalog(sel.result, sel.agentfacts)
        /\ sel.agentfacts = <<>> => sel.result = SelectNone /\ ~sel.called

\* The part of C30 the code keeps: a selection that returns gives None or an
\* entry of the catalog, and the empty catalog gives None without a call.
C30_ReturnedValueFromCatalog ==
    (sel.pc = "done" /\ sel.result # SelectRaised) =>
        /\ FromCatalog(sel.result, sel.agentfacts)
        /\ sel.agentfacts = <<>> => sel.result = SelectNone /\ ~sel.called

\* ------------------------------------------------------ C29
\* The step in which a2a_endpoint takes a new request with a mention.
MentionArrives ==
    /\ Len(reqs') = Len(reqs) + 1
    /\ HasMention(reqs'[Len(reqs')].text)

====
